---- MODULE Spec2Model ----
(***************************************************************************)
(* Model of scripts/run_llm.py: the truth-mask enumeration, the two        *)
(* generation loops (evaluate_constraints_llm with call_llm's retry loop,  *)
(* evaluate_constraints_smt with call_smt), the CSV hand-over and the      *)
(* validate pass of main.                                                  *)
(*                                                                         *)
(* A string is a sequence of one-character strings.  A truth mask is a     *)
(* sequence of BOOLEAN.  The z3 solver, the constraint store and the       *)
(* structured-output parser are collaborators of the script; their models  *)
(* are marked as such where they are defined.                              *)
(***************************************************************************)
EXTENDS Integers, Sequences, FiniteSets, TLC

VARIABLES
    approach,           \* args.approach: "llm", "smt" or "validate"
    use_variable_name,  \* args.use_variable_name
    names,              \* constraint_store.get_constraint_names()
    pc,                 \* position of the single thread of control
    nameIdx,            \* position of "for name in names" (main)
    num_constraint,     \* evaluate_constraints_*: num_constraint
    truth_masks_comb,   \* evaluate_constraints_*: truth_masks_comb
    maskIdx,            \* position of "for truth_masks in truth_masks_comb"
    llmInput,           \* call_llm: the input handed to chain.invoke
    response,           \* call_llm: result.content of the last invocation
    results,            \* main: results (list of dict)
    csv,                \* the file at save_path
    df,                 \* validate pass: the frame read from save_path
    rowIdx,             \* validate pass: position of "for index, row"
    valid,              \* validate pass: column "valid?" of the rows done
    calls,              \* validate pass: the call_smt calls made (input, verdict)
    validation,         \* the file at validation_path
    yielded             \* masks the enumeration loop has produced (SpecEnum)

vars == <<approach, use_variable_name, names, pc, nameIdx, num_constraint,
          truth_masks_comb, maskIdx, llmInput, response, results, csv, df,
          rowIdx, valid, calls, validation, yielded>>

(***************************************************************************)
(* Bounds of the model.                                                    *)
(***************************************************************************)
\* Largest number of records (masks summed over the variables) of a store.
MaxRecords == 4
\* Largest constraint count of the enumeration specification SpecEnum.
MaxN == 6

(***************************************************************************)
(* Strings.                                                                *)
(***************************************************************************)
\* The double-quote character.
Q == "\""

\* The sentinel of prompt.py and of the validate pass.
UNSAT == <<"U", "N", "S", "A", "T">>

\* str(float("nan")): what str() gives for an empty CSV cell.
NaN == <<"n", "a", "n">>

\* The strings the solver searches for a witness.
StrDomain == {<<>>, <<"a">>, <<Q>>}

\* The values a parsed language-model answer may carry.
LLMValues == {UNSAT, <<>>, <<"a", Q>>}

RECURSIVE Flatten(_)
\* "".join(parts) for a sequence of strings.
Flatten(parts) ==
    IF parts = <<>> THEN <<>> ELSE Head(parts) \o Flatten(Tail(parts))

\* No escaping at all (mutant of EscapeQuotes).
EscapeQuotes_None(s) == s

\* str.replace('"', '""') (main, the validate pass).
EscapeQuotes(s) ==
    Flatten([i \in 1..Len(s) |-> IF s[i] = Q THEN <<Q, Q>> ELSE <<s[i]>>])

(***************************************************************************)
(* Truth-mask enumeration: itertools.product([True, False], repeat=n).     *)
(***************************************************************************)
\* Pool with its items swapped (mutant of Pool).
Pool_FalseFirst == <<FALSE, TRUE>>

\* The pool [True, False] of run_llm.py lines 42 and 88.
Pool == <<TRUE, FALSE>>

\* A round that takes the pool's first item for every position (mutant of
\* ProductStep).
ProductStep_FirstItemOnly(result) ==
    [i \in 1..(Len(result) * Len(Pool)) |->
        Append(result[((i - 1) \div Len(Pool)) + 1], Pool[1])]

\* One round of product: result = [x + [y] for x in result for y in pool].
ProductStep(result) ==
    [i \in 1..(Len(result) * Len(Pool)) |->
        Append(result[((i - 1) \div Len(Pool)) + 1],
               Pool[((i - 1) % Len(Pool)) + 1])]

RECURSIVE Product(_)
\* list(product([True, False], repeat=n)): n rounds starting from [[]].
Product(n) ==
    IF n = 0 THEN << <<>> >> ELSE ProductStep(Product(n - 1))

(***************************************************************************)
(* The constraint store (constraints.ConstraintStore, a collaborator).     *)
(* A constraint is named by its kind; position i of a mask selects the     *)
(* constraint as stated (TRUE) or its negation (FALSE).                    *)
(***************************************************************************)
\* The constraint file: every variable with its ordered constraints.
Catalogue ==
    [tag  |-> <<>>,
     id   |-> <<"noquote">>,
     pair |-> <<"empty", "nonempty">>]

\* constraint_store.get_num_constraints(name)
get_num_constraints(name) == Len(Catalogue[name])

\* constraint_store.get_smt_constraints(name, truth_masks)
get_smt_constraints(name, truth_masks) ==
    [i \in 1..Len(truth_masks) |->
        [op |-> "constraint", kind |-> Catalogue[name][i],
         positive |-> truth_masks[i], text |-> <<>>]]

\* constraint_store.get_nl_constraints(name, truth_masks): the sentences
\* mention the variable by its name.
get_nl_constraints(name, truth_masks) ==
    [i \in 1..Len(truth_masks) |->
        [subject |-> name, kind |-> Catalogue[name][i],
         positive |-> truth_masks[i]]]

RECURSIVE Pow2(_)
Pow2(n) == IF n = 0 THEN 1 ELSE 2 * Pow2(n - 1)

RECURSIVE TotalMasks(_)
TotalMasks(ns) ==
    IF ns = <<>> THEN 0
    ELSE Pow2(Len(Catalogue[Head(ns)])) + TotalMasks(Tail(ns))

\* The stores a run may load: the sequences of distinct variables of the
\* catalogue whose masks number at most MaxRecords.
Stores ==
    {ns \in UNION {[1..k -> DOMAIN Catalogue] : k \in 1..Cardinality(DOMAIN Catalogue)} :
        /\ \A i, j \in DOMAIN ns : i # j => ns[i] # ns[j]
        /\ TotalMasks(ns) <= MaxRecords}

(***************************************************************************)
(* The solver (z3, a collaborator) as call_smt uses it.                    *)
(***************************************************************************)
\* The assertion the validate pass builds: '(assert (= s "' + result + '"))'.
PinAssertion(result) ==
    [op |-> "text", kind |-> "", positive |-> TRUE,
     text |-> <<"(assert (= s ", Q>> \o result \o <<Q, "))">>]

RECURSIVE ScanLiteral(_, _, _)
\* The SMT-LIB reader on a string literal, from position i of text t, the
\* opening quote consumed: "" stands for one quote character, a single quote
\* ends the literal, and the assertion must then close with "))".
ScanLiteral(t, i, acc) ==
    IF i > Len(t) THEN [ok |-> FALSE, val |-> <<>>]
    ELSE IF t[i] = Q
         THEN IF i + 1 <= Len(t) /\ t[i + 1] = Q
              THEN ScanLiteral(t, i + 2, Append(acc, Q))
              ELSE [ok |-> SubSeq(t, i + 1, Len(t)) = <<"))">>, val |-> acc]
         ELSE ScanLiteral(t, i + 1, Append(acc, t[i]))

\* solver.from_string on one pinning assertion: the value s is pinned to.
ParsePin(t) == ScanLiteral(t, 3, <<>>)

\* "(declare-const s String)", the first line of every problem.
Declare == [op |-> "declare", kind |-> "", positive |-> TRUE, text |-> <<>>]

\* solver.from_string accepts the problem.
ParseOk(problem) ==
    \A i \in DOMAIN problem :
        problem[i].op = "text" => ParsePin(problem[i].text).ok

\* Whether string s satisfies one line of the problem.
Holds(a, s) ==
    IF a.op = "declare" THEN TRUE
    ELSE IF a.op = "text" THEN s = ParsePin(a.text).val
    ELSE LET stated == CASE a.kind = "empty"    -> Len(s) = 0
                         [] a.kind = "nonempty" -> Len(s) >= 1
                         [] a.kind = "noquote"  -> \A k \in DOMAIN s : s[k] # Q
         IN  stated <=> a.positive

\* The strings satisfying every line of the problem.
Models(problem) ==
    {w \in StrDomain \cup
           {ParsePin(problem[i].text).val :
               i \in {j \in DOMAIN problem : problem[j].op = "text"}} :
        \A i \in DOMAIN problem : Holds(problem[i], w)}

\* solver.check(): "unknown" stands for the 60 s timeout, which may strike
\* any problem; otherwise sat exactly when a model exists.
Verdicts(problem) ==
    {"unknown"} \cup (IF Models(problem) = {} THEN {"unsat"} ELSE {"sat"})

\* The absent witness (str_val = None).
None == [tag |-> "none", val |-> <<>>]

\* call_smt(constraints): the pairs (sat_res, str_val) it may return.
call_smt(constraints) ==
    LET problem == <<Declare>> \o constraints
    IN  {[sat_res |-> v, str_val |-> None] :
            v \in Verdicts(problem) \ {"sat"}}
        \cup
        (IF "sat" \in Verdicts(problem)
         THEN {[sat_res |-> "sat", str_val |-> [tag |-> "z3", val |-> w]] :
                  w \in Models(problem)}
         ELSE {})

(***************************************************************************)
(* The language model and the structured-output parser (collaborators).    *)
(***************************************************************************)
\* What chain.invoke may answer: text the parser rejects, or a JSON object
\* carrying a value.
Responses ==
    {[kind |-> "malformed", value |-> <<>>]}
    \cup {[kind |-> "json", value |-> v] : v \in LLMValues}

\* No invocation is in flight.
NoResponse == [kind |-> "none", value |-> <<>>]
NoInput == [name |-> "", constraints |-> <<>>]

\* parser.parse(content) returns a Result rather than raising ValueError.
Parses(content) == content.kind = "json"

(***************************************************************************)
(* The CSV hand-over: DataFrame(results).to_csv, then pandas.read_csv.     *)
(***************************************************************************)
\* str(truth_masks) of a tuple of bool, as tokens.
ReprMask(m) ==
    <<"(">>
    \o Flatten([i \in 1..Len(m) |->
          (IF i > 1 THEN <<", ">> ELSE <<>>)
          \o <<IF m[i] THEN "True" ELSE "False">>])
    \o (IF Len(m) = 1 THEN <<",">> ELSE <<>>)
    \o <<")">>

RECURSIVE EvalItems(_)
EvalItems(toks) ==
    IF toks = <<>> THEN <<>>
    ELSE (IF Head(toks) = "True" THEN <<TRUE>>
          ELSE IF Head(toks) = "False" THEN <<FALSE>>
          ELSE <<>>) \o EvalItems(Tail(toks))

\* list(eval(row["truth_masks"]))
EvalMask(toks) == EvalItems(toks)

\* The text to_csv writes for a value of column "result": None is an empty
\* cell, a str is itself, a z3 string value is printed between quotes.
CsvCell(v) ==
    CASE v.tag = "none" -> <<>>
      [] v.tag = "str"  -> v.val
      [] v.tag = "z3"   -> <<Q>> \o v.val \o <<Q>>

\* df.to_csv(save_path, index=False)
to_csv(rs) ==
    [i \in 1..Len(rs) |->
        [name |-> rs[i].name, sat |-> rs[i].sat,
         result |-> CsvCell(rs[i].result),
         truth_masks |-> ReprMask(rs[i].truth_masks)]]

\* pandas.read_csv: an empty cell (and the text nan) is the float NaN.
read_csv(file) ==
    [i \in 1..Len(file) |->
        [name |-> file[i].name, sat |-> file[i].sat,
         result |-> IF file[i].result \in {<<>>, NaN}
                    THEN [tag |-> "nan", val |-> <<>>]
                    ELSE [tag |-> "str", val |-> file[i].result],
         truth_masks |-> file[i].truth_masks]]

\* str(row["result"])
PyStr(v) == IF v.tag = "nan" THEN NaN ELSE v.val

(***************************************************************************)
(* The validate pass of main, one row.                                     *)
(***************************************************************************)
\* result = str(row["result"]).replace('"', '""')
RowResult(row) == EscapeQuotes(PyStr(row.result))

\* The constraints handed to call_smt for a row (lines 133-138).
RowConstraints(row) ==
    LET result      == RowResult(row)
        truth_masks == EvalMask(row.truth_masks)
        constraints == get_smt_constraints(row.name, truth_masks)
    IN  IF result # UNSAT
        THEN <<PinAssertion(result)>> \o constraints
        ELSE constraints

\* A timeout counted as a refutation (mutant of Validity).
Validity_UnknownAsInvalid(result, sat_res) ==
    IF result # UNSAT
    THEN (IF sat_res = "sat" THEN 1 ELSE 0)
    ELSE (IF sat_res = "unsat" THEN 1 ELSE 0)

\* The sentinel treated like any value (mutant of Validity).
Validity_SentinelAsValue(result, sat_res) ==
    IF sat_res = "unknown" THEN -1
    ELSE (IF sat_res = "sat" THEN 1 ELSE 0)

\* The value written to column "valid?" (lines 142-149).
Validity(result, sat_res) ==
    IF sat_res = "unknown" THEN -1
    ELSE IF result # UNSAT
         THEN (IF sat_res = "sat" THEN 1 ELSE 0)
         ELSE (IF sat_res = "unsat" THEN 1 ELSE 0)

(***************************************************************************)
(* Initial states.                                                         *)
(***************************************************************************)
Idle ==
    /\ truth_masks_comb = <<>>
    /\ maskIdx = 1
    /\ llmInput = NoInput
    /\ response = NoResponse
    /\ results = <<>>
    /\ csv = <<>>
    /\ df = <<>>
    /\ rowIdx = 1
    /\ valid = <<>>
    /\ calls = <<>>
    /\ validation = <<>>
    /\ yielded = <<>>

\* main, lines 107-109, of a generation run.
Init ==
    /\ approach \in {"llm", "smt"}
    /\ use_variable_name \in (IF approach = "llm" THEN BOOLEAN ELSE {FALSE})
    /\ names \in Stores
    /\ pc = "names_loop"
    /\ nameIdx = 1
    /\ num_constraint = 0
    /\ Idle

(***************************************************************************)
(* main, lines 167-173: for name in names.                                 *)
(***************************************************************************)
\* evaluate_constraints_llm, lines 39-42.
evaluate_constraints_llm ==
    /\ pc = "names_loop"
    /\ nameIdx <= Len(names)
    /\ approach = "llm"
    /\ num_constraint' = get_num_constraints(names[nameIdx])
    /\ truth_masks_comb' = Product(get_num_constraints(names[nameIdx]))
    /\ maskIdx' = 1
    /\ pc' = "llm_loop"
    /\ UNCHANGED <<approach, use_variable_name, names, nameIdx, llmInput,
                   response, results, csv, df, rowIdx, valid, calls,
                   validation, yielded>>

\* evaluate_constraints_smt, lines 87-88.
evaluate_constraints_smt ==
    /\ pc = "names_loop"
    /\ nameIdx <= Len(names)
    /\ approach = "smt"
    /\ num_constraint' = get_num_constraints(names[nameIdx])
    /\ truth_masks_comb' = Product(get_num_constraints(names[nameIdx]))
    /\ maskIdx' = 1
    /\ pc' = "smt_loop"
    /\ UNCHANGED <<approach, use_variable_name, names, nameIdx, llmInput,
                   response, results, csv, df, rowIdx, valid, calls,
                   validation, yielded>>

\* The prompt input of one mask (lines 46-53): the constraints as rendered,
\* or with the variable's name replaced by "x".
PromptInput(name, truth_masks) ==
    LET constraints == get_nl_constraints(name, truth_masks)
    IN  IF use_variable_name
        THEN [name |-> name, constraints |-> constraints]
        ELSE [name |-> "x",
              constraints |->
                  [i \in DOMAIN constraints |->
                      [constraints[i] EXCEPT !.subject =
                          IF @ = name THEN "x" ELSE @]]]

\* evaluate_constraints_llm, lines 45-53: one mask is rendered and call_llm
\* is entered.
llm_loop_body ==
    /\ pc = "llm_loop"
    /\ maskIdx <= Len(truth_masks_comb)
    /\ llmInput' = PromptInput(names[nameIdx], truth_masks_comb[maskIdx])
    /\ pc' = "llm_invoke"
    /\ UNCHANGED <<approach, use_variable_name, names, nameIdx, num_constraint,
                   truth_masks_comb, maskIdx, response, results, csv, df,
                   rowIdx, valid, calls, validation, yielded>>

\* call_llm, line 24: chain.invoke.
call_llm_invoke ==
    /\ pc = "llm_invoke"
    /\ response' \in Responses
    /\ pc' = "llm_parse"
    /\ UNCHANGED <<approach, use_variable_name, names, nameIdx, num_constraint,
                   truth_masks_comb, maskIdx, llmInput, results, csv, df,
                   rowIdx, valid, calls, validation, yielded>>

\* A parse failure surfaced as an "UNSAT" record instead of a retry (mutant
\* of call_llm_retry).
call_llm_retry_GiveUp ==
    /\ pc = "llm_parse"
    /\ response.kind = "malformed"
    /\ results' = Append(results,
                         [name |-> names[nameIdx], sat |-> "",
                          result |-> [tag |-> "str", val |-> UNSAT],
                          truth_masks |-> truth_masks_comb[maskIdx]])
    /\ maskIdx' = maskIdx + 1
    /\ llmInput' = NoInput
    /\ response' = NoResponse
    /\ pc' = "llm_loop"
    /\ UNCHANGED <<approach, use_variable_name, names, nameIdx, num_constraint,
                   truth_masks_comb, csv, df, rowIdx, valid, calls,
                   validation, yielded>>

\* call_llm, lines 27-28: ValueError, continue.
call_llm_retry ==
    /\ pc = "llm_parse"
    /\ ~Parses(response)
    /\ pc' = "llm_invoke"
    /\ UNCHANGED <<approach, use_variable_name, names, nameIdx, num_constraint,
                   truth_masks_comb, maskIdx, llmInput, response, results, csv,
                   df, rowIdx, valid, calls, validation, yielded>>

\* The record evaluate_constraints_llm appends (lines 55-57).
LlmRecord(name, value, truth_masks) ==
    [name |-> name, sat |-> "",
     result |-> [tag |-> "str", val |-> value],
     truth_masks |-> truth_masks]

\* call_llm, line 26, and evaluate_constraints_llm, lines 55-57: the parsed
\* result is returned and recorded.
call_llm_return ==
    /\ pc = "llm_parse"
    /\ Parses(response)
    /\ results' = Append(results,
                         LlmRecord(names[nameIdx], response.value,
                                   truth_masks_comb[maskIdx]))
    /\ maskIdx' = maskIdx + 1
    /\ llmInput' = NoInput
    /\ response' = NoResponse
    /\ pc' = "llm_loop"
    /\ UNCHANGED <<approach, use_variable_name, names, nameIdx, num_constraint,
                   truth_masks_comb, csv, df, rowIdx, valid, calls,
                   validation, yielded>>

\* The record evaluate_constraints_smt appends (lines 95-102).
SmtRecord(name, out, truth_masks) ==
    [name |-> name, sat |-> out.sat_res, result |-> out.str_val,
     truth_masks |-> truth_masks]

\* The result list rebuilt from the newest record instead of appended to
\* (mutant of smt_loop_body).
smt_loop_body_Rebuild ==
    /\ pc = "smt_loop"
    /\ maskIdx <= Len(truth_masks_comb)
    /\ \E out \in call_smt(get_smt_constraints(names[nameIdx],
                                               truth_masks_comb[maskIdx])) :
          results' = <<SmtRecord(names[nameIdx], out,
                                 truth_masks_comb[maskIdx])>>
    /\ maskIdx' = maskIdx + 1
    /\ UNCHANGED <<approach, use_variable_name, names, pc, nameIdx,
                   num_constraint, truth_masks_comb, llmInput, response, csv,
                   df, rowIdx, valid, calls, validation, yielded>>

\* evaluate_constraints_smt, lines 92-102: one mask.
smt_loop_body ==
    /\ pc = "smt_loop"
    /\ maskIdx <= Len(truth_masks_comb)
    /\ \E out \in call_smt(get_smt_constraints(names[nameIdx],
                                               truth_masks_comb[maskIdx])) :
          results' = Append(results,
                            SmtRecord(names[nameIdx], out,
                                      truth_masks_comb[maskIdx]))
    /\ maskIdx' = maskIdx + 1
    /\ UNCHANGED <<approach, use_variable_name, names, pc, nameIdx,
                   num_constraint, truth_masks_comb, llmInput, response, csv,
                   df, rowIdx, valid, calls, validation, yielded>>

\* evaluate_constraints_* returns: the masks are exhausted.
evaluate_return ==
    /\ pc \in {"llm_loop", "smt_loop"}
    /\ maskIdx > Len(truth_masks_comb)
    /\ nameIdx' = nameIdx + 1
    /\ pc' = "names_loop"
    /\ UNCHANGED <<approach, use_variable_name, names, num_constraint,
                   truth_masks_comb, maskIdx, llmInput, response, results, csv,
                   df, rowIdx, valid, calls, validation, yielded>>

\* main, lines 185-188: the results are saved.
main_save ==
    /\ pc = "names_loop"
    /\ nameIdx > Len(names)
    /\ csv' = to_csv(results)
    /\ pc' = "saved"
    /\ UNCHANGED <<approach, use_variable_name, names, nameIdx, num_constraint,
                   truth_masks_comb, maskIdx, llmInput, response, results, df,
                   rowIdx, valid, calls, validation, yielded>>

(***************************************************************************)
(* main, lines 125-152: the validate pass, a later run over the same       *)
(* store and the saved file.                                               *)
(***************************************************************************)
\* main, lines 107-109 and 127.
validate_start ==
    /\ pc = "saved"
    /\ approach' = "validate"
    /\ results' = <<>>
    /\ df' = read_csv(csv)
    /\ rowIdx' = 1
    /\ pc' = "validate_loop"
    /\ UNCHANGED <<use_variable_name, names, nameIdx, num_constraint,
                   truth_masks_comb, maskIdx, llmInput, response, csv, valid,
                   calls, validation, yielded>>

\* main, lines 128-149: one row.  solver.from_string raises on a problem it
\* cannot read, which would end the run before anything is written.
validate_row ==
    /\ pc = "validate_loop"
    /\ rowIdx <= Len(df)
    /\ ParseOk(RowConstraints(df[rowIdx]))
    /\ \E out \in call_smt(RowConstraints(df[rowIdx])) :
          /\ valid' = Append(valid,
                             Validity(RowResult(df[rowIdx]), out.sat_res))
          /\ calls' = Append(calls,
                             [constraints |-> RowConstraints(df[rowIdx]),
                              sat_res |-> out.sat_res])
    /\ rowIdx' = rowIdx + 1
    /\ UNCHANGED <<approach, use_variable_name, names, pc, nameIdx,
                   num_constraint, truth_masks_comb, maskIdx, llmInput,
                   response, results, csv, df, validation, yielded>>

\* main, lines 150-152: the frame is written to the validation file.
validate_finish ==
    /\ pc = "validate_loop"
    /\ rowIdx > Len(df)
    /\ validation' = [i \in 1..Len(df) |->
                         [name |-> df[i].name, sat |-> df[i].sat,
                          result |-> df[i].result,
                          truth_masks |-> df[i].truth_masks,
                          valid |-> valid[i]]]
    /\ pc' = "done"
    /\ UNCHANGED <<approach, use_variable_name, names, nameIdx, num_constraint,
                   truth_masks_comb, maskIdx, llmInput, response, results, csv,
                   df, rowIdx, valid, calls, yielded>>

Next ==
    \/ evaluate_constraints_llm
    \/ evaluate_constraints_smt
    \/ llm_loop_body
    \/ call_llm_invoke
    \/ call_llm_retry
    \/ call_llm_return
    \/ smt_loop_body
    \/ evaluate_return
    \/ main_save
    \/ validate_start
    \/ validate_row
    \/ validate_finish

Spec == Init /\ [][Next]_vars

(***************************************************************************)
(* The generation run of the language-model approach alone.  The script    *)
(* is one thread that keeps running, hence the weak fairness.              *)
(***************************************************************************)
InitLlm == Init /\ approach = "llm"

NextLlm ==
    \/ evaluate_constraints_llm
    \/ llm_loop_body
    \/ call_llm_invoke
    \/ call_llm_retry
    \/ call_llm_return
    \/ evaluate_return
    \/ main_save

SpecLlm == InitLlm /\ [][NextLlm]_vars /\ WF_vars(NextLlm)

(***************************************************************************)
(* The enumeration loop alone, lines 39-45 and 87-92, for a variable of    *)
(* num_constraint constraints: the masks are built and then visited in     *)
(* order.                                                                  *)
(***************************************************************************)
InitEnum ==
    /\ approach = "smt"
    /\ use_variable_name = FALSE
    /\ names = <<>>
    /\ pc = "enum_start"
    /\ nameIdx = 1
    /\ num_constraint \in 0..MaxN
    /\ Idle

\* truth_masks_comb = list(product([True, False], repeat=num_constraint))
enum_product ==
    /\ pc = "enum_start"
    /\ truth_masks_comb' = Product(num_constraint)
    /\ maskIdx' = 1
    /\ pc' = "enum_loop"
    /\ UNCHANGED <<approach, use_variable_name, names, nameIdx, num_constraint,
                   llmInput, response, results, csv, df, rowIdx, valid, calls,
                   validation, yielded>>

\* for truth_masks in truth_masks_comb: one mask is handed to the loop body.
enum_yield ==
    /\ pc = "enum_loop"
    /\ maskIdx <= Len(truth_masks_comb)
    /\ yielded' = Append(yielded, truth_masks_comb[maskIdx])
    /\ maskIdx' = maskIdx + 1
    /\ UNCHANGED <<approach, use_variable_name, names, pc, nameIdx,
                   num_constraint, truth_masks_comb, llmInput, response,
                   results, csv, df, rowIdx, valid, calls, validation>>

\* The loop ends.
enum_done ==
    /\ pc = "enum_loop"
    /\ maskIdx > Len(truth_masks_comb)
    /\ pc' = "enum_done"
    /\ UNCHANGED <<approach, use_variable_name, names, nameIdx, num_constraint,
                   truth_masks_comb, maskIdx, llmInput, response, results, csv,
                   df, rowIdx, valid, calls, validation, yielded>>

NextEnum == enum_product \/ enum_yield \/ enum_done

SpecEnum == InitEnum /\ [][NextEnum]_vars

(***************************************************************************)
(* Properties.                                                             *)
(***************************************************************************)
AllTrue(m) == \A p \in DOMAIN m : m[p]
AllFalse(m) == \A p \in DOMAIN m : ~m[p]

\* The positions at which two masks of one length differ.
Differ(m1, m2) == {p \in DOMAIN m1 : m1[p] # m2[p]}

\* Mask m1 comes before m2 when, at the first position where they differ,
\* m1 is True and m2 is False.
LexBefore(m1, m2) ==
    \E p \in DOMAIN m1 :
        /\ \A q \in 1..(p - 1) : m1[q] = m2[q]
        /\ m1[p]
        /\ ~m2[p]

\* The k-th mask (from 1) over n constraints, counting in binary with the
\* first position most significant and True for the digit 0.
CountingMask(n, k) ==
    [p \in 1..n |-> ((k - 1) \div Pow2(n - p)) % 2 = 0]

\* The rows processed so far by the validate pass.
Validated == DOMAIN valid

\* The recorded value of row i, as the validate pass reads it.
Recorded(i) == PyStr(df[i].result)

\* The mask constraints of row i.
MaskConstraints(i) ==
    get_smt_constraints(df[i].name, EvalMask(df[i].truth_masks))

\* C1: for every constraint count n the exhaustive enumeration holds exactly
\* 2^n masks, each of length n, no two equal, and the loop visits each of
\* them once; for n = 0 it is the single empty mask.
C1_ExhaustiveEnumeration ==
    pc \in {"enum_loop", "enum_done"} =>
        /\ Len(truth_masks_comb) = Pow2(num_constraint)
        /\ \A i \in DOMAIN truth_masks_comb :
              /\ Len(truth_masks_comb[i]) = num_constraint
              /\ \A p \in DOMAIN truth_masks_comb[i] :
                    truth_masks_comb[i][p] \in BOOLEAN
        /\ \A i, j \in DOMAIN truth_masks_comb :
              i # j => truth_masks_comb[i] # truth_masks_comb[j]
        /\ yielded = SubSeq(truth_masks_comb, 1, maskIdx - 1)
        /\ (pc = "enum_done" =>
              /\ Len(yielded) = Pow2(num_constraint)
              /\ Cardinality({yielded[i] : i \in DOMAIN yielded})
                     = Pow2(num_constraint))
        /\ (num_constraint = 0 => truth_masks_comb = << <<>> >>)

\* The enumeration over three constraints has run to its end with 8 masks.
C1_Witness ==
    /\ pc = "enum_done"
    /\ num_constraint = 3
    /\ Len(yielded) = 8

\* C7 as stated: over three constraints the enumeration yields exactly 4
\* masks, the all-true mask and then three masks each differing from it in
\* exactly one position.
C7_SweepMode ==
    (pc = "enum_done" /\ num_constraint = 3) =>
        /\ Len(yielded) = 4
        /\ AllTrue(yielded[1])
        /\ \A k \in 2..Len(yielded) :
              Cardinality(Differ(yielded[1], yielded[k])) = 1

\* C2: a validated row whose recorded value is not "UNSAT" was checked with
\* the pinning assertion, and its validity is 1 for a sat verdict, 0 for
\* unsat and -1 for unknown; so 1 is written only for a value that satisfies
\* the mask's constraints and 0 only for one that does not.
C2_ValueVerdictMapping ==
    \A i \in Validated :
        Recorded(i) # UNSAT =>
            /\ valid[i] \in {-1, 0, 1}
            /\ (calls[i].sat_res = "sat" <=> valid[i] = 1)
            /\ (calls[i].sat_res = "unsat" <=> valid[i] = 0)
            /\ (calls[i].sat_res = "unknown" <=> valid[i] = -1)
            /\ Len(calls[i].constraints) = Len(MaskConstraints(i)) + 1
            /\ (valid[i] = 1 =>
                  \A k \in DOMAIN MaskConstraints(i) :
                      Holds(MaskConstraints(i)[k], Recorded(i)))
            /\ (valid[i] = 0 =>
                  \E k \in DOMAIN MaskConstraints(i) :
                      ~Holds(MaskConstraints(i)[k], Recorded(i)))

\* A finished validate pass holding rows with a value that were found
\* valid, invalid and inconclusive.
C2_Witness ==
    /\ pc = "done"
    /\ \A v \in {-1, 0, 1} :
          \E i \in Validated : Recorded(i) # UNSAT /\ valid[i] = v

\* C3: a validated row whose recorded value is "UNSAT" was checked on the
\* bare mask constraints, and its validity is 1 exactly for an unsat
\* verdict, 0 for sat and -1 for unknown; so 1 is written only when no
\* string satisfies the mask.
C3_SentinelVerdictMapping ==
    \A i \in Validated :
        Recorded(i) = UNSAT =>
            /\ calls[i].constraints = MaskConstraints(i)
            /\ (calls[i].sat_res = "unsat" <=> valid[i] = 1)
            /\ (calls[i].sat_res = "sat" <=> valid[i] = 0)
            /\ (calls[i].sat_res = "unknown" <=> valid[i] = -1)
            /\ (valid[i] = 1 =>
                  ~\E w \in StrDomain :
                      \A k \in DOMAIN MaskConstraints(i) :
                          Holds(MaskConstraints(i)[k], w))
            /\ (valid[i] = 0 =>
                  \E w \in StrDomain :
                      \A k \in DOMAIN MaskConstraints(i) :
                          Holds(MaskConstraints(i)[k], w))

\* A finished validate pass holding "UNSAT" rows that were found valid,
\* invalid and inconclusive.
C3_Witness ==
    /\ pc = "done"
    /\ \A v \in {-1, 0, 1} :
          \E i \in Validated : Recorded(i) = UNSAT /\ valid[i] = v

\* C4 as stated: a row the solver path recorded with the verdict sat is
\* found valid by the validate pass unless the solver times out.
C4_RoundTrip ==
    \A i \in Validated :
        (df[i].sat = "sat" /\ calls[i].sat_res # "unknown") => valid[i] = 1

\* C9 as stated, timeouts aside: every record of a definite verdict carries
\* a produced value or "UNSAT"; a record of the solver path for an
\* unsatisfiable mask carries "UNSAT", and the validate pass finds it valid.
C9_SentinelRecorded ==
    /\ \A i \in DOMAIN results :
          results[i].sat # "unknown" =>
              /\ results[i].result.tag \in {"str", "z3"}
              /\ (results[i].sat = "unsat" =>
                    results[i].result = [tag |-> "str", val |-> UNSAT])
    /\ \A i \in Validated :
          (df[i].sat = "unsat" /\ calls[i].sat_res # "unknown")
              => valid[i] = 1

\* C5: a response the parser rejects is never surfaced: the next step
\* invokes the model again with the same name and constraints and records
\* nothing; a record is appended only from a response that parsed, with the
\* parsed value.  The call returns once a response parses, unless the
\* responses are unparseable from some point on; and a run in which no
\* response ever parses never reaches the save.
C5_RetryUntilParsed ==
    /\ [][(pc = "llm_parse" /\ ~Parses(response)) =>
              /\ pc' = "llm_invoke"
              /\ llmInput' = llmInput
              /\ results' = results
              /\ maskIdx' = maskIdx]_vars
    /\ [][(pc = "llm_parse" /\ pc' # "llm_invoke") =>
              /\ Parses(response)
              /\ results' = Append(results,
                                   [name |-> names[nameIdx], sat |-> "",
                                    result |-> [tag |-> "str",
                                                val |-> response.value],
                                    truth_masks |-> truth_masks_comb[maskIdx]])]_vars
    /\ [][pc = "llm_invoke" => pc' = "llm_parse" /\ llmInput' = llmInput]_vars
    /\ (<>[](pc \in {"llm_invoke", "llm_parse"})
            => <>[](pc = "llm_parse" => ~Parses(response)))
    /\ ([](pc = "llm_parse" => ~Parses(response)) => [](pc # "saved"))

\* A second invocation for the same mask: the model is asked again after a
\* rejected response, with no record appended for the mask.
C5_Witness ==
    /\ pc = "llm_invoke"
    /\ response.kind = "malformed"
    /\ llmInput = PromptInput(names[nameIdx], truth_masks_comb[maskIdx])
    /\ Len(results) = maskIdx - 1

\* The records of one variable in the result list.
RecordsOf(name) == {i \in DOMAIN results : results[i].name = name}

\* C6: within a generation run the result list only grows at its end, and
\* when the run has gone through all variables it holds, for every
\* variable, one record per mask: 2^(constraint count) records with
\* pairwise different masks.
C6_AppendOnlyCount ==
    /\ [][approach' = approach =>
              /\ Len(results') >= Len(results)
              /\ SubSeq(results', 1, Len(results)) = results]_vars
    /\ []((pc = "saved") =>
              \A n \in DOMAIN names :
                  /\ Cardinality(RecordsOf(names[n]))
                         = Pow2(get_num_constraints(names[n]))
                  /\ \A i, j \in RecordsOf(names[n]) :
                        i # j => results[i].truth_masks # results[j].truth_masks)

\* A generation run over two variables is complete, one of them with a
\* single constraint and so with two records.
C6_Witness ==
    /\ pc = "saved"
    /\ Len(names) = 2
    /\ \E n \in DOMAIN names : Cardinality(RecordsOf(names[n])) = 2

\* The position of a variable in the store's order.
NameIndex(name) == CHOOSE n \in DOMAIN names : names[n] = name

RECURSIVE CountingPairs(_)
\* The (name, mask) pairs a store determines, by binary counting.
CountingPairs(ns) ==
    IF ns = <<>> THEN <<>>
    ELSE [k \in 1..Pow2(get_num_constraints(Head(ns))) |->
             <<Head(ns), CountingMask(get_num_constraints(Head(ns)), k)>>]
         \o CountingPairs(Tail(ns))

\* C8: records are emitted variable by variable in the store's order; within
\* a variable the masks start with all-True, come in the order in which the
\* first position varies slowest, and end with all-False; the saved sequence
\* of (name, mask) pairs is the one the store determines.
C8_DeterministicOrder ==
    /\ \A i, j \in DOMAIN results :
          i < j =>
              /\ NameIndex(results[i].name) <= NameIndex(results[j].name)
              /\ (results[i].name = results[j].name =>
                    LexBefore(results[i].truth_masks, results[j].truth_masks))
    /\ \A i \in DOMAIN results :
          (i = 1 \/ results[i - 1].name # results[i].name)
              => AllTrue(results[i].truth_masks)
    /\ \A i \in DOMAIN results :
          (i < Len(results) /\ results[i + 1].name # results[i].name)
              => AllFalse(results[i].truth_masks)
    /\ (pc = "saved" =>
          /\ AllFalse(results[Len(results)].truth_masks)
          /\ [i \in DOMAIN results |->
                 <<results[i].name, results[i].truth_masks>>]
                 = CountingPairs(names))
    /\ (pc \in {"saved", "validate_loop", "done"} =>
          [i \in DOMAIN csv |-> <<csv[i].name, EvalMask(csv[i].truth_masks)>>]
              = CountingPairs(names))

\* A saved run over a variable with two constraints: its four masks are on
\* record in order.
C8_Witness ==
    /\ pc = "saved"
    /\ \E i \in DOMAIN results :
          /\ i + 3 <= Len(results)
          /\ results[i].truth_masks = <<TRUE, TRUE>>
          /\ results[i + 1].truth_masks = <<TRUE, FALSE>>
          /\ results[i + 2].truth_masks = <<FALSE, TRUE>>
          /\ results[i + 3].truth_masks = <<FALSE, FALSE>>

\* The text between the outer quotes of a pinning assertion.
LiteralText(a) == SubSeq(a.text, 3, Len(a.text) - 2)

\* A text in which every double quote stands in a pair.
RECURSIVE QuotesPaired(_)
QuotesPaired(t) ==
    IF t = <<>> THEN TRUE
    ELSE IF Head(t) # Q THEN QuotesPaired(Tail(t))
    ELSE Len(t) >= 2 /\ t[2] = Q /\ QuotesPaired(Tail(Tail(t)))

====
